---- MODULE Spec2Model ----
(***************************************************************************)
(* std::auto_ptr<T> as defined by folly_compat.h: a single-owner pointer   *)
(* whose copy operations transfer ownership.  The model runs a client      *)
(* that applies the public operations to a small pool of auto_ptr objects  *)
(* and heap addresses, and records every call in a history.                *)
(***************************************************************************)
EXTENDS Integers, Sequences, FiniteSets

\* ---------------------------------------------------------------- bounds
NumOwners == 2      \* auto_ptr objects the client can have
NumAddrs  == 2      \* distinct heap allocations the client can hand over
MaxOps    == 4      \* calls recorded in one run

\* ------------------------------------------------------------- universes
Null   == 0                       \* the null pointer (T* p = 0)
Addrs  == 1..NumAddrs             \* non-null values of T*
Ptrs   == Addrs \cup {Null}
Owners == 1..NumOwners

VARIABLES
    ptr,      \* ptr[o]: the field auto_ptr::ptr of object o
    live,     \* live[o]: o has been constructed and not yet destroyed
    born,     \* how many objects have been constructed so far
    freed,    \* freed[a]: how many times delete has been applied to a
    status,   \* "ok", or "ub" once a delete hit an already freed address
    trace     \* the calls made so far, each with the state around it

vars == <<ptr, live, born, freed, status, trace>>

\* The memory state as one value, so that the member functions are operators.
Cur == [ptr |-> ptr, live |-> live, freed |-> freed]

\* ------------------------------------------------------ member functions
DeleteNothing(h, p) == h

\* delete p: a no-op on the null pointer, a deallocation otherwise.
Delete(h, p) ==
    IF p = Null THEN h ELSE [h EXCEPT !.freed[p] = @ + 1]

\* explicit auto_ptr(T* p = 0) : ptr(p) {}
Ctor(h, o, p) == [h EXCEPT !.ptr[o] = p, !.live[o] = TRUE]

DtorNoDelete(h, o) == [h EXCEPT !.live[o] = FALSE]

\* ~auto_ptr() { delete ptr; }   (the field keeps its stale value)
Dtor(h, o) == [Delete(h, h.ptr[o]) EXCEPT !.live[o] = FALSE]

GetNull(h, o) == Null

\* T* get() const { return ptr; }
Get(h, o) == h.ptr[o]

ReleaseKeeps(h, o) == h

\* T* release() { T* tmp = ptr; ptr = 0; return tmp; }: the state after it
Release(h, o) == [h EXCEPT !.ptr[o] = Null]

\* ... and the value it returns (tmp)
ReleaseRet(h, o) == h.ptr[o]

CopyCtorShares(h, o, s) == [h EXCEPT !.ptr[o] = h.ptr[s], !.live[o] = TRUE]

\* auto_ptr(const auto_ptr& other) : ptr(other.release()) {}
CopyCtor(h, o, s) ==
    [Release(h, s) EXCEPT !.ptr[o] = ReleaseRet(h, s), !.live[o] = TRUE]

AssignNoSelfCheck(h, o, s) ==
    LET d == Delete(h, h.ptr[o])
    IN  [Release(d, s) EXCEPT !.ptr[o] = ReleaseRet(d, s)]

AssignNoDelete(h, o, s) ==
    IF o # s
    THEN [Release(h, s) EXCEPT !.ptr[o] = ReleaseRet(h, s)]
    ELSE h

\* operator=: if (this != &other) { delete ptr; ptr = other.release(); }
Assign(h, o, s) ==
    IF o # s
    THEN LET d == Delete(h, h.ptr[o])
         IN  [Release(d, s) EXCEPT !.ptr[o] = ReleaseRet(d, s)]
    ELSE h

ResetAlwaysDeletes(h, o, p) == [Delete(h, h.ptr[o]) EXCEPT !.ptr[o] = p]

\* void reset(T* p = 0) { if (ptr != p) { delete ptr; ptr = p; } }
Reset(h, o, p) ==
    IF h.ptr[o] # p
    THEN [Delete(h, h.ptr[o]) EXCEPT !.ptr[o] = p]
    ELSE h

\* ------------------------------------------------------------- the client
Init ==
    /\ ptr = [o \in Owners |-> Null]
    /\ live = [o \in Owners |-> FALSE]
    /\ born = 0
    /\ freed = [a \in Addrs |-> 0]
    /\ status = "ok"
    /\ trace = << >>

\* One call: h2 is the state the code leaves, ret the value it returns.  A call
\* whose delete hits a freed address (freed[a] reaches 2) is undefined
\* behaviour: it may run to its end or stop at the delete, and the run is not
\* followed any further.  Objects are numbered in the order of construction.
Call(op, o, s, p, h2, ret) ==
    /\ status = "ok"
    /\ Len(trace) < MaxOps
    /\ LET ub == \E a \in Addrs : h2.freed[a] > 1
       IN  \E out \in (IF ub THEN {h2, [Cur EXCEPT !.freed = h2.freed]} ELSE {h2}) :
             /\ ptr' = out.ptr
             /\ live' = out.live
             /\ born' = IF op \in {"construct", "copy"} THEN born + 1 ELSE born
             /\ freed' = out.freed
             /\ status' = IF ub THEN "ub" ELSE "ok"
             /\ trace' = Append(trace, [op |-> op, o |-> o, s |-> s, p |-> p,
                                        ret |-> ret, ub |-> ub,
                                        pre |-> Cur, post |-> out])

Construct ==
    \E o \in Owners, p \in Ptrs :
        /\ o = born + 1
        /\ Call("construct", o, o, p, Ctor(Cur, o, p), Null)

Destroy ==
    \E o \in Owners :
        /\ live[o]
        /\ Call("destroy", o, o, Null, Dtor(Cur, o), Null)

CopyConstruct ==
    \E o \in Owners, s \in Owners :
        /\ o = born + 1
        /\ live[s]
        /\ Call("copy", o, s, Null, CopyCtor(Cur, o, s), Null)

CopyAssign ==
    \E o \in Owners, s \in Owners :
        /\ live[o]
        /\ live[s]
        /\ Call("assign", o, s, Null, Assign(Cur, o, s), Null)

CallGet ==
    \E o \in Owners :
        /\ live[o]
        /\ Call("get", o, o, Null, Cur, Get(Cur, o))

CallRelease ==
    \E o \in Owners :
        /\ live[o]
        /\ Call("release", o, o, Null, Release(Cur, o), ReleaseRet(Cur, o))

CallReset ==
    \E o \in Owners, p \in Ptrs :
        /\ live[o]
        /\ Call("reset", o, o, p, Reset(Cur, o, p), Null)

Next ==
    \/ Construct
    \/ Destroy
    \/ CopyConstruct
    \/ CopyAssign
    \/ CallGet
    \/ CallRelease
    \/ CallReset

Spec == Init /\ [][Next]_vars

TypeOK ==
    /\ ptr \in [Owners -> Ptrs]
    /\ live \in [Owners -> BOOLEAN]
    /\ born \in 0..NumOwners
    /\ \A o \in Owners : live[o] => o <= born
    /\ freed \in [Addrs -> 0..2]
    /\ status \in {"ok", "ub"}
    /\ Len(trace) <= MaxOps

\* ------------------------------------------------- reading the history
Entries == 1..Len(trace)

\* How often address a has been handed to a constructor or to reset.
Handed(a) ==
    Cardinality({i \in Entries : trace[i].op \in {"construct", "reset"}
                                 /\ trace[i].p = a})

\* Every non-null address has been handed over at most once.
Disciplined == \A a \in Addrs : Handed(a) <= 1

\* The live objects whose ptr is a.
Holders(a) == {o \in Owners : live[o] /\ ptr[o] = a}

\* How many times the call e applied delete to a.
FreedBy(e, a) == e.post.freed[a] - e.pre.freed[a]

\* The call e deallocated nothing.
FreesNothing(e) == e.post.freed = e.pre.freed

\* The call e deallocated a once and nothing else.
FreesOnly(e, a) ==
    \A x \in Addrs : FreedBy(e, x) = (IF x = a THEN 1 ELSE 0)

\* No call strictly between entries i and j has o as its object or its source.
Untouched(o, i, j) ==
    \A k \in (i + 1)..(j - 1) : trace[k].o # o /\ trace[k].s # o

\* The addresses a call to release has returned to the client.
ReleasedToCaller == {trace[i].ret : i \in {k \in Entries : trace[k].op = "release"}}

\* ---------------------------------------------------------------- claims

\* C1: while every non-null address is handed to a constructor or to reset at
\* most once, at most one live auto_ptr holds any given non-null address.
C1_SingleOwner ==
    Disciplined => \A a \in Addrs : Cardinality(Holders(a)) <= 1

C1_Witness ==
    /\ Disciplined
    /\ \E i \in Entries : trace[i].op = "copy" /\ trace[i].pre.ptr[trace[i].s] \in Addrs
    /\ \E a \in Addrs : Holders(a) # {}
    /\ \A o \in Owners : live[o]

\* C2: copy-constructing o2 from o, which holds a, leaves o2.get() = a and
\* o.get() = null, leaves every other object alone and deallocates nothing.
C2_CopyTransfers ==
    \A i \in Entries :
        LET e == trace[i] IN
        e.op = "copy" =>
            /\ Get(e.post, e.o) = e.pre.ptr[e.s]
            /\ Get(e.post, e.s) = Null
            /\ \A x \in Owners \ {e.o, e.s} : e.post.ptr[x] = e.pre.ptr[x]
            /\ FreesNothing(e)

C2_Witness ==
    \E i \in Entries :
        /\ trace[i].op = "copy"
        /\ trace[i].pre.ptr[trace[i].s] \in Addrs
        /\ trace[i].post.ptr[trace[i].o] \in Addrs

\* C3: destroying an object that holds a non-null address applies delete to
\* that address once and to nothing else; destroying an empty object
\* deallocates nothing.
C3_DestroyFreesOnce ==
    \A i \in Entries :
        LET e == trace[i] IN
        e.op = "destroy" =>
            IF e.pre.ptr[e.o] = Null
            THEN FreesNothing(e)
            ELSE FreesOnly(e, e.pre.ptr[e.o])

C3_Witness ==
    /\ \E i \in Entries : trace[i].op = "destroy" /\ trace[i].pre.ptr[trace[i].o] \in Addrs
    /\ \E i \in Entries : trace[i].op = "destroy" /\ trace[i].pre.ptr[trace[i].o] = Null

\* The four calls of the scenario start at entry i: construct A with X, copy A
\* to B, destroy B, destroy A.
IsCopyScenario(i, A, B, X) ==
    /\ i + 3 <= Len(trace)
    /\ trace[i].op = "construct" /\ trace[i].o = A /\ trace[i].p = X
    /\ trace[i + 1].op = "copy" /\ trace[i + 1].o = B /\ trace[i + 1].s = A
    /\ trace[i + 2].op = "destroy" /\ trace[i + 2].o = B
    /\ trace[i + 3].op = "destroy" /\ trace[i + 3].o = A

\* C4: construct A with X, copy A to B, destroy B, destroy A: after the copy A
\* is empty and B holds X; X is deallocated exactly once over the four calls,
\* by the destruction of B, and the destruction of A deallocates nothing.
C4_CopyScenario ==
    \A i \in Entries, A \in Owners, B \in Owners, X \in Addrs :
        IsCopyScenario(i, A, B, X) =>
            /\ trace[i + 1].post.ptr[A] = Null
            /\ trace[i + 1].post.ptr[B] = X
            /\ FreesNothing(trace[i]) /\ FreesNothing(trace[i + 1])
            /\ FreesOnly(trace[i + 2], X)
            /\ FreesNothing(trace[i + 3])
            /\ trace[i + 3].post.freed[X] = trace[i].pre.freed[X] + 1

C4_Witness ==
    \E i \in Entries, A \in Owners, B \in Owners, X \in Addrs :
        /\ IsCopyScenario(i, A, B, X)
        /\ freed[X] = 1
        /\ status = "ok"

\* C5: on an object holding a, a reset(b) with b # a whose behaviour is defined
\* deallocates a (and nothing else) and leaves get() = b; reset(a) deallocates
\* nothing and leaves get() = a.
C5_Reset ==
    \A i \in Entries :
        LET e == trace[i]
            a == e.pre.ptr[e.o]
        IN  (e.op = "reset" /\ a \in Addrs /\ ~e.ub) =>
                /\ Get(e.post, e.o) = e.p
                /\ IF e.p # a THEN FreesOnly(e, a) ELSE FreesNothing(e)
                /\ \A x \in Owners \ {e.o} : e.post.ptr[x] = e.pre.ptr[x]

C5_Witness ==
    /\ \E i \in Entries :
          /\ trace[i].op = "reset" /\ ~trace[i].ub
          /\ trace[i].pre.ptr[trace[i].o] \in Addrs
          /\ trace[i].p \in Addrs
          /\ trace[i].p # trace[i].pre.ptr[trace[i].o]
    /\ \E i \in Entries :
          /\ trace[i].op = "reset"
          /\ trace[i].pre.ptr[trace[i].o] \in Addrs
          /\ trace[i].p = trace[i].pre.ptr[trace[i].o]

\* C6: release() returns the address the object holds, leaves get() = null and
\* deallocates nothing; the next call on that object, if it is its
\* destruction, deallocates nothing.
C6_Release ==
    \A i \in Entries :
        LET e == trace[i] IN
        e.op = "release" =>
            /\ e.ret = e.pre.ptr[e.o]
            /\ Get(e.post, e.o) = Null
            /\ FreesNothing(e)
            /\ \A j \in Entries :
                  (j > i /\ trace[j].op = "destroy" /\ trace[j].o = e.o
                   /\ Untouched(e.o, i, j)) => FreesNothing(trace[j])

C6_Witness ==
    \E i \in Entries, j \in Entries :
        /\ trace[i].op = "release" /\ trace[i].ret \in Addrs
        /\ j > i /\ trace[j].op = "destroy" /\ trace[j].o = trace[i].o
        /\ Untouched(trace[i].o, i, j)
        /\ freed[trace[i].ret] = 0

\* C7: o = o changes neither o.get(), nor any other object, nor what has been
\* deallocated; the next call on o, if it is its destruction, deallocates the
\* address o holds once, and in a disciplined run that is the only
\* deallocation of it.
C7_SelfAssign ==
    \A i \in Entries :
        LET e == trace[i]
            a == e.pre.ptr[e.o]
        IN  (e.op = "assign" /\ e.s = e.o) =>
                /\ e.post = e.pre
                /\ ~e.ub
                /\ \A j \in Entries :
                      (j > i /\ trace[j].op = "destroy" /\ trace[j].o = e.o
                       /\ Untouched(e.o, i, j) /\ a # Null) =>
                          /\ FreesOnly(trace[j], a)
                          /\ Disciplined => trace[j].post.freed[a] = 1

C7_Witness ==
    \E i \in Entries, j \in Entries :
        /\ trace[i].op = "assign" /\ trace[i].s = trace[i].o
        /\ trace[i].pre.ptr[trace[i].o] \in Addrs
        /\ j > i /\ trace[j].op = "destroy" /\ trace[j].o = trace[i].o
        /\ Untouched(trace[i].o, i, j)
        /\ Disciplined

\* C8 as stated: t = s with t # s, t holding a (or empty) and s holding b (or
\* empty), behaviour defined: a is deallocated once if non-null, t.get() = b,
\* s.get() = null, and b is not deallocated by the assignment.
C8_AssignAsStated ==
    \A i \in Entries :
        LET e == trace[i]
            a == e.pre.ptr[e.o]
            b == e.pre.ptr[e.s]
        IN  (e.op = "assign" /\ e.s # e.o /\ ~e.ub) =>
                /\ a # Null => FreedBy(e, a) = 1
                /\ Get(e.post, e.o) = b
                /\ Get(e.post, e.s) = Null
                /\ b # Null => FreedBy(e, b) = 0

\* C8 amended: as above, but b is left alone only when b # a; the call
\* deallocates a (if non-null) and nothing else, also when a = b.
C8_Assign ==
    \A i \in Entries :
        LET e == trace[i]
            a == e.pre.ptr[e.o]
            b == e.pre.ptr[e.s]
        IN  (e.op = "assign" /\ e.s # e.o /\ ~e.ub) =>
                /\ IF a = Null THEN FreesNothing(e) ELSE FreesOnly(e, a)
                /\ Get(e.post, e.o) = b
                /\ Get(e.post, e.s) = Null
                /\ (b # Null /\ b # a) => FreedBy(e, b) = 0
                /\ \A x \in Owners \ {e.o, e.s} : e.post.ptr[x] = e.pre.ptr[x]

C8_Witness ==
    /\ \E i \in Entries :
          /\ trace[i].op = "assign" /\ trace[i].s # trace[i].o /\ ~trace[i].ub
          /\ trace[i].pre.ptr[trace[i].o] \in Addrs
          /\ trace[i].pre.ptr[trace[i].s] \in Addrs
          /\ trace[i].pre.ptr[trace[i].o] # trace[i].pre.ptr[trace[i].s]
    /\ \E i \in Entries :
          /\ trace[i].op = "assign" /\ trace[i].s # trace[i].o
          /\ trace[i].pre.ptr[trace[i].o] = Null

\* C9: an object constructed with a has get() = a, null included; get returns
\* the held address and changes nothing, so a get that follows the
\* construction or another get of the same object, with no call on that object
\* in between, returns the same value.
C9_Get ==
    \A i \in Entries :
        LET e == trace[i] IN
        /\ e.op = "construct" => e.post.ptr[e.o] = e.p /\ Get(e.post, e.o) = e.p
        /\ e.op = "get" =>
              /\ e.ret = e.pre.ptr[e.o]
              /\ e.post = e.pre
              /\ \A k \in Entries :
                    (k < i /\ trace[k].o = e.o /\ Untouched(e.o, k, i)) =>
                        /\ trace[k].op = "construct" => e.ret = trace[k].p
                        /\ trace[k].op = "get" => e.ret = trace[k].ret

C9_Witness ==
    \E k \in Entries, i \in Entries, j \in Entries :
        /\ k < i /\ i < j
        /\ trace[k].op = "construct" /\ trace[k].p \in Addrs
        /\ trace[i].op = "get" /\ trace[i].o = trace[k].o
        /\ trace[j].op = "get" /\ trace[j].o = trace[k].o
        /\ Untouched(trace[k].o, k, i) /\ Untouched(trace[k].o, i, j)
        /\ trace[j].ret = trace[k].p

====
